---- MODULE Spec2Model ----
(***************************************************************************)
(* Model of translate_mesh_deep.py: the JSONL translation pipeline with    *)
(* its cache store (load_cache / save_cache), the translation client       *)
(* (translate_text) and the batch loop (process) with its streaming scan   *)
(* of a top-level JSON array, resume set and output writer.                *)
(*                                                                         *)
(* Text is modelled as a sequence of symbols.  A symbol is a run of one or *)
(* more characters that the code treats alike: the JSON punctuation marks  *)
(* are symbols of their own, and a word such as "mesh_id" or "x" is one    *)
(* symbol standing for characters none of which is punctuation.            *)
(***************************************************************************)
EXTENDS Integers, Sequences, FiniteSets, TLC

\* ------------------------------------------------------------------ JSON
Q == "\""
Digits == {"0", "5"}
NullSym == "null"

\* Python values as the json module produces them: str, int, None, list, dict.
\* A dict keeps its insertion order: a sequence of [k, val] pairs, keys unique.
StrV(s) == [t |-> "str", v |-> s]
NumV(d) == [t |-> "num", v |-> <<d>>]
NoneV == [t |-> "none", v |-> <<>>]
ListV(items) == [t |-> "list", v |-> items]
ObjV(pairs) == [t |-> "obj", v |-> pairs]

\* bool(value)
Truthy(val) ==
    CASE val.t = "none" -> FALSE
      [] val.t = "num" -> val.v # <<"0">>
      [] OTHER -> Len(val.v) > 0

\* hash(value) succeeds: list and dict are unhashable
Hashable(val) == val.t \in {"str", "num", "none"}

\* key in dict
HasKey(pairs, key) == \E i \in 1..Len(pairs) : pairs[i].k = key

\* dict.get(key) : None when the key is missing
Get(pairs, key) ==
    IF HasKey(pairs, key)
    THEN pairs[CHOOSE i \in 1..Len(pairs) : pairs[i].k = key].val
    ELSE NoneV

\* dict[key] = val : overwrite in place, or insert at the end
\* a store that keeps only the pair it was given
PutReplacesAll(pairs, key, val) == <<[k |-> key, val |-> val]>>

Put(pairs, key, val) ==
    IF HasKey(pairs, key)
    THEN [i \in 1..Len(pairs) |->
            IF pairs[i].k = key THEN [k |-> key, val |-> val] ELSE pairs[i]]
    ELSE Append(pairs, [k |-> key, val |-> val])

ParseFail == [ok |-> FALSE, val |-> NoneV, next |-> 0]

\* index of the first Q at or after i, 0 when there is none
RECURSIVE FindQuote(_, _)
FindQuote(s, i) ==
    IF i > Len(s) THEN 0
    ELSE IF s[i] = Q THEN i
    ELSE FindQuote(s, i + 1)

\* json.loads, as a recursive-descent decoder over the symbols
RECURSIVE ParseValue(_, _), ParseItems(_, _, _), ParseMembers(_, _, _)
ParseValue(s, i) ==
    IF i > Len(s) THEN ParseFail
    ELSE IF s[i] = Q THEN
        LET j == FindQuote(s, i + 1) IN
        IF j = 0 THEN ParseFail
        ELSE [ok |-> TRUE, val |-> StrV(SubSeq(s, i + 1, j - 1)), next |-> j + 1]
    ELSE IF s[i] \in Digits THEN [ok |-> TRUE, val |-> NumV(s[i]), next |-> i + 1]
    ELSE IF s[i] = NullSym THEN [ok |-> TRUE, val |-> NoneV, next |-> i + 1]
    ELSE IF s[i] = "[" THEN
        IF i + 1 <= Len(s) /\ s[i + 1] = "]"
        THEN [ok |-> TRUE, val |-> ListV(<<>>), next |-> i + 2]
        ELSE ParseItems(s, i + 1, <<>>)
    ELSE IF s[i] = "{" THEN
        IF i + 1 <= Len(s) /\ s[i + 1] = "}"
        THEN [ok |-> TRUE, val |-> ObjV(<<>>), next |-> i + 2]
        ELSE ParseMembers(s, i + 1, <<>>)
    ELSE ParseFail

ParseItems(s, i, acc) ==
    LET r == ParseValue(s, i) IN
    IF ~r.ok \/ r.next > Len(s) THEN ParseFail
    ELSE IF s[r.next] = "]"
        THEN [ok |-> TRUE, val |-> ListV(Append(acc, r.val)), next |-> r.next + 1]
    ELSE IF s[r.next] = ","
        THEN ParseItems(s, r.next + 1, Append(acc, r.val))
    ELSE ParseFail

ParseMembers(s, i, acc) ==
    IF i > Len(s) \/ s[i] # Q THEN ParseFail
    ELSE
        LET key == ParseValue(s, i) IN
        IF ~key.ok \/ key.next > Len(s) \/ s[key.next] # ":" THEN ParseFail
        ELSE
            LET r == ParseValue(s, key.next + 1) IN
            IF ~r.ok \/ r.next > Len(s) THEN ParseFail
            ELSE IF s[r.next] = "}"
                THEN [ok |-> TRUE, val |-> ObjV(Put(acc, key.val.v, r.val)),
                      next |-> r.next + 1]
            ELSE IF s[r.next] = ","
                THEN ParseMembers(s, r.next + 1, Put(acc, key.val.v, r.val))
            ELSE ParseFail

\* json.loads(text): the value, or a raised JSONDecodeError (ok = FALSE)
Loads(s) ==
    LET r == ParseValue(s, 1) IN
    IF r.ok /\ r.next = Len(s) + 1 THEN r ELSE ParseFail

\* json.dumps(value, ensure_ascii=False)
RECURSIVE Dumps(_), DumpItems(_, _), DumpMembers(_, _)
Dumps(val) ==
    CASE val.t = "str" -> <<Q>> \o val.v \o <<Q>>
      [] val.t = "num" -> val.v
      [] val.t = "none" -> <<NullSym>>
      [] val.t = "list" -> <<"[">> \o DumpItems(val.v, 1) \o <<"]">>
      [] OTHER -> <<"{">> \o DumpMembers(val.v, 1) \o <<"}">>

DumpItems(items, i) ==
    IF i > Len(items) THEN <<>>
    ELSE Dumps(items[i]) \o (IF i < Len(items) THEN <<",">> ELSE <<>>)
         \o DumpItems(items, i + 1)

DumpMembers(pairs, i) ==
    IF i > Len(pairs) THEN <<>>
    ELSE <<Q>> \o pairs[i].k \o <<Q, ":">> \o Dumps(pairs[i].val)
         \o (IF i < Len(pairs) THEN <<",">> ELSE <<>>)
         \o DumpMembers(pairs, i + 1)

\* --------------------------------------------------------------- bounds
MaxRetries == 3      \* retries values tried on direct calls of translate_text
MaxCalls == 3        \* direct calls of translate_text in one run of the harness
WriteChunk == 6      \* symbols that reach the temporary file in one piece

\* ------------------------------------------------------------ constants
BaseDelay == 1       \* base_delay=1.0
ProcessRetries == 5  \* retries=5 at both call sites of process()

\* ---------------------------------------------------------------- state
VARIABLES
    \* files
    inputFile,      \* symbols of the file at input_path
    outDisk,        \* file at output_path: [exists, lines], a line is [text, nl]
    outBuf,         \* lines written to f_out and not yet flushed
    cacheFile,      \* file at cache_path: [st, text]
    tmpFile,        \* file at cache_path + '.tmp': [st, text]
    \* process() locals
    resume, cache, existing_ids, pos, in_array, brace_count, current,
    total_read, written, obj,
    \* translate_text() frame
    text, retries, attempt, result, ret,
    \* control
    pc,             \* the statement about to run
    exc,            \* "none", or the exception that ended the run
    \* observation of the run (no effect on it)
    outcomes,       \* provider outcomes of the current translate_text call
    sleeps,         \* backoff sleeps of the current translate_text call
    logged,         \* the current call printed 'Failed after ...'
    cache0,         \* the cache when the current call was entered
    prev,           \* the completed direct calls' last record, <<>> before any
    ncalls,         \* direct calls made so far
    saving,         \* the value save_cache is writing
    written0,       \* symbols of tmp written so far by json.dump
    reports,        \* 'JSON parse error' lines printed
    recs,           \* per decoded record: what the run did with it
    out0,           \* the output file before the run
    src,            \* how the input file was put together: [elems, tail]
    lastEvent,      \* the last of: provider "call", "backoff" sleep (line
                    \* 64), "delay" sleep (lines 149, 159); "none" before any
    ended,          \* how the earlier runs of the job ended, oldest first
    \* crawl_mesh.py
    mesh_items,     \* main: the parsed records, [term_en, definition_en], and
                    \* after the last loop also term_vi, definition_vi
    term_vi_all, def_vi_all,
    batch_start,    \* main: the loop variable i of the batch loops
    text_list,      \* gemini_batch_translate: the argument of the last call
    translated,     \* gemini_batch_translate: the value of the last call
    provider,       \* what the Gemini endpoint did in a call made on its own
    \* convert_to_json.py: a MedicalParquetConverter and its output
    disease_counter, drug_counter, symptom_counter,
    medical_items,  \* convert_to_json: [id, category, index] per converted row
    conv_calls,     \* the category detected in each call so far, in order
    \* crawl_tamanh_section.py: crawl_one_disease_sections
    page,           \* the page at url: [url, raw, h2, long]
    toc_items,      \* what extract_toc_items_h2 returned
    item_idx,       \* index in toc_items of the item the loop is at
    records         \* the records built so far

fileVars == <<inputFile, outDisk, outBuf, cacheFile, tmpFile>>
procVars == <<resume, existing_ids, pos, in_array, brace_count, current,
              total_read, written, obj>>
frameVars == <<text, retries, attempt, result, ret>>
callObs == <<outcomes, sleeps, logged, cache0>>
unitObs == <<prev, ncalls>>
saveObs == <<saving, written0>>
procObs == <<reports, recs, out0, src>>
runObs == <<lastEvent, ended>>
meshVars == <<mesh_items, term_vi_all, def_vi_all, batch_start, text_list,
              translated, provider>>
convVars == <<disease_counter, drug_counter, symptom_counter, medical_items,
              conv_calls>>
sectVars == <<page, toc_items, item_idx, records>>
otherVars == <<meshVars, convVars, sectVars>>
vars == <<fileVars, procVars, cache, frameVars, pc, exc, callObs, unitObs,
          saveObs, procObs, runObs, otherVars>>

\* ------------------------------------------------------- translate_text
\* str.strip(): drop leading and trailing whitespace
RECURSIVE LStrip(_)
LStrip(s) == IF Len(s) > 0 /\ s[1] = " " THEN LStrip(Tail(s)) ELSE s
RECURSIVE RStrip(_)
RStrip(s) ==
    IF Len(s) > 0 /\ s[Len(s)] = " " THEN RStrip(SubSeq(s, 1, Len(s) - 1)) ELSE s
\* a strip() that strips nothing
StripNothing(s) == s

Strip(s) == RStrip(LStrip(s))

\* `sub in s` for two str: s has sub as a contiguous run
IsSubstring(sub, s) ==
    \E i \in 1..(Len(s) + 1) :
        i + Len(sub) - 1 <= Len(s) /\ SubSeq(s, i, i + Len(sub) - 1) = sub

\* a lookup that never finds the text
CacheNeverContains(c, txt) == "no"

\* `text in cache` for the value load_cache returned; "TypeError" when the
\* value supports no membership test
CacheContains(c, txt) ==
    CASE c.t = "obj" -> IF HasKey(c.v, txt.v) THEN "yes" ELSE "no"
      [] c.t = "list" -> IF \E i \in 1..Len(c.v) : c.v[i] = txt THEN "yes" ELSE "no"
      [] c.t = "str" -> IF IsSubstring(txt.v, c.v) THEN "yes" ELSE "no"
      [] OTHER -> "TypeError"

\* what the provider can do on one call: raise, return nothing, or return a
\* translation of the text
ProviderResults(txt) == {<<"vi1">> \o txt, <<"vi2">> \o txt}
ProviderOutcomes(txt) ==
    {[kind |-> "raise", val |-> NoneV], [kind |-> "empty", val |-> StrV(<<>>)]}
    \cup {[kind |-> "ok", val |-> StrV(r)] : r \in ProviderResults(txt)}

\* 2 ** n
RECURSIVE Pow2(_)
Pow2(n) == IF n = 0 THEN 1 ELSE 2 * Pow2(n - 1)

\* base_delay * (2 ** attempt)
Backoff(n) == BaseDelay * Pow2(n)

\* an uncaught exception starts to unwind the stack
Raise(e) == pc' = "raising" /\ exc' = e

\* lines 46-52: the guards before the retry loop
TEnter ==
    /\ pc = "tt_enter"
    /\ UNCHANGED <<fileVars, procVars, cache, text, retries, ret, callObs,
                   unitObs, saveObs, procObs, runObs, otherVars>>
    /\ IF ~Truthy(text)
       THEN /\ result' = NoneV /\ attempt' = attempt
            /\ pc' = "tt_return" /\ exc' = exc
       ELSE IF text.t # "str"
       THEN /\ Raise("AttributeError") /\ UNCHANGED <<result, attempt>>
       ELSE IF Strip(text.v) = <<>>
       THEN /\ result' = NoneV /\ attempt' = attempt
            /\ pc' = "tt_return" /\ exc' = exc
       ELSE IF CacheContains(cache, text) = "TypeError"
       THEN /\ Raise("TypeError") /\ UNCHANGED <<result, attempt>>
       ELSE IF CacheContains(cache, text) = "yes"
       THEN IF cache.t = "obj"
            THEN /\ result' = Get(cache.v, text.v) /\ attempt' = attempt
                 /\ pc' = "tt_return" /\ exc' = exc
            ELSE /\ Raise("TypeError") /\ UNCHANGED <<result, attempt>>
       ELSE /\ attempt' = 0 /\ result' = result
            /\ pc' = "tt_loop" /\ exc' = exc

\* line 69: the loop ran out without a translation
TExhausted ==
    /\ pc = "tt_loop"
    /\ attempt >= retries
    /\ result' = NoneV
    /\ pc' = "tt_return"
    /\ UNCHANGED <<fileVars, procVars, cache, text, retries, attempt, ret, exc,
                   callObs, unitObs, saveObs, procObs, runObs, otherVars>>

\* an except branch that gives up one attempt early
ExceptGivesUpEarly ==
    IF attempt < retries - 2
    THEN /\ sleeps' = Append(sleeps, BaseDelay * Pow2(attempt))
         /\ attempt' = attempt + 1
         /\ pc' = "tt_loop"
         /\ UNCHANGED <<result, logged>>
    ELSE /\ logged' = TRUE
         /\ result' = NoneV
         /\ pc' = "tt_return"
         /\ UNCHANGED <<sleeps, attempt>>

\* an except branch that lets the exception of the last attempt out
ExceptReraisesLast ==
    IF attempt < retries - 1
    THEN /\ sleeps' = Append(sleeps, Backoff(attempt))
         /\ attempt' = attempt + 1
         /\ pc' = "tt_loop"
         /\ UNCHANGED <<result, logged>>
    ELSE /\ logged' = TRUE
         /\ result' = NoneV
         /\ pc' = "raising"
         /\ UNCHANGED <<sleeps, attempt>>

\* lines 60-67: the except branch of one attempt
Except ==
    IF attempt < retries - 1
    THEN /\ sleeps' = Append(sleeps, Backoff(attempt))
         /\ attempt' = attempt + 1
         /\ pc' = "tt_loop"
         /\ UNCHANGED <<result, logged>>
    ELSE /\ logged' = TRUE
         /\ result' = NoneV
         /\ pc' = "tt_return"
         /\ UNCHANGED <<sleeps, attempt>>

\* the record being processed has had a provider call made for it
MarkCalled(rs) == [rs EXCEPT ![Len(rs)].called = TRUE]

\* lines 55-67: one pass of the retry loop, for each thing the provider can do
TAttempt ==
    /\ pc = "tt_loop"
    /\ attempt < retries
    /\ \E o \in ProviderOutcomes(text.v) :
        /\ outcomes' = Append(outcomes, o.kind)
        /\ IF o.kind = "ok"
           THEN IF cache.t = "obj"
                THEN /\ cache' = ObjV(Put(cache.v, text.v, o.val))
                     /\ result' = o.val
                     /\ pc' = "tt_return"
                     /\ UNCHANGED <<attempt, sleeps, logged>>
                ELSE /\ Except /\ cache' = cache
           ELSE IF o.kind = "empty"
           THEN /\ attempt' = attempt + 1
                /\ pc' = "tt_loop"
                /\ UNCHANGED <<cache, result, sleeps, logged>>
           ELSE /\ Except /\ cache' = cache
    /\ recs' = IF ret \in {"term", "def"} THEN MarkCalled(recs) ELSE recs
    /\ lastEvent' = IF ret \notin {"term", "def"} THEN lastEvent
                    ELSE IF sleeps' # sleeps THEN "backoff" ELSE "call"
    /\ UNCHANGED <<fileVars, procVars, text, retries, ret, exc, cache0,
                   unitObs, saveObs, reports, out0, src, ended, otherVars>>

\* a caller's call of translate_text(txt, cache, retries=k)
CallTranslate(txt, k, back) ==
    /\ text' = txt /\ retries' = k /\ ret' = back
    /\ attempt' = 0 /\ result' = NoneV
    /\ outcomes' = <<>> /\ sleeps' = <<>> /\ logged' = FALSE /\ cache0' = cache
    /\ pc' = "tt_enter"

\* translate_text has returned to its caller: its frame is gone
PopFrame ==
    /\ text' = NoneV /\ retries' = 0 /\ ret' = "none"
    /\ attempt' = 0 /\ result' = NoneV
    /\ outcomes' = <<>> /\ sleeps' = <<>> /\ logged' = FALSE /\ cache0' = NoneV

\* ---------------------------------- direct calls of translate_text
UnitTexts ==
    {NoneV, StrV(<<>>), StrV(<<" ">>), StrV(<<" ", " ">>), StrV(<<"x">>),
     StrV(<<"y", " ">>)}

UnitCaches ==
    {ObjV(<<>>), ObjV(<<[k |-> <<"x">>, val |-> StrV(<<"vi0", "x">>)]>>)}

CallRecord ==
    [text |-> text, retries |-> retries, result |-> result,
     outcomes |-> outcomes, sleeps |-> sleeps, logged |-> logged,
     cache0 |-> cache0, cache1 |-> cache]

UCall ==
    /\ pc = "u_idle"
    /\ ncalls < MaxCalls
    /\ \E txt \in UnitTexts, k \in 0..MaxRetries : CallTranslate(txt, k, "unit")
    /\ ncalls' = ncalls + 1
    /\ UNCHANGED <<fileVars, procVars, cache, exc, prev, saveObs, procObs,
                   runObs, otherVars>>

UReturn ==
    /\ pc = "tt_return"
    /\ ret = "unit"
    /\ prev' = <<CallRecord>>
    /\ PopFrame
    /\ pc' = "u_idle"
    /\ UNCHANGED <<fileVars, procVars, cache, exc, ncalls, saveObs, procObs,
                   runObs, otherVars>>

NoFile == [st |-> "absent", text |-> <<>>]
NoOut == [exists |-> FALSE, lines |-> <<>>]

\* the other programs of the repository are not running
MeshIdle ==
    /\ mesh_items = <<>> /\ term_vi_all = <<>> /\ def_vi_all = <<>>
    /\ batch_start = 0 /\ text_list = <<>> /\ translated = <<>>
    /\ provider = [kind |-> "not_called", lines |-> <<>>]
ConvIdle ==
    /\ disease_counter = 0 /\ drug_counter = 0 /\ symptom_counter = 0
    /\ medical_items = <<>> /\ conv_calls = <<>>
SectIdle ==
    /\ page = [url |-> "", raw |-> <<>>, h2 |-> {}, long |-> {}]
    /\ toc_items = <<>> /\ item_idx = 0 /\ records = <<>>

InitLocals ==
    /\ outBuf = <<>> /\ tmpFile = NoFile
    /\ existing_ids = {} /\ pos = 0 /\ in_array = FALSE
    /\ brace_count = 0 /\ current = <<>> /\ total_read = 0 /\ written = 0
    /\ obj = NoneV
    /\ text = NoneV /\ retries = 0 /\ attempt = 0 /\ result = NoneV /\ ret = "none"
    /\ exc = "none"
    /\ outcomes = <<>> /\ sleeps = <<>> /\ logged = FALSE
    /\ prev = <<>> /\ ncalls = 0
    /\ saving = NoneV /\ written0 = 0
    /\ reports = 0 /\ recs = <<>>
    /\ lastEvent = "none" /\ ended = <<>>

\* no batch is running: no input, no output, resume at its default
InitNoBatch ==
    /\ inputFile = <<>> /\ src = [elems |-> <<>>, tail |-> <<>>]
    /\ outDisk = NoOut /\ out0 = NoOut /\ resume = TRUE

InitT ==
    /\ MeshIdle /\ ConvIdle /\ SectIdle
    /\ InitLocals /\ InitNoBatch
    /\ pc = "u_idle"
    /\ cacheFile = NoFile
    /\ cache \in UnitCaches
    /\ cache0 = NoneV

NextT == UCall \/ TEnter \/ TAttempt \/ TExhausted \/ UReturn

SpecT == InitT /\ [][NextT]_vars
\* ---------------------------------------------------------- cache store
\* a load_cache without its try/except
LoadCacheNoCatch(file) ==
    IF file.st = "absent" THEN [exc |-> "none", val |-> [t |-> "obj", v |-> <<>>]]
    ELSE IF file.st = "unreadable"
    THEN [exc |-> "OSError", val |-> [t |-> "none", v |-> <<>>]]
    ELSE LET r == Loads(file.text) IN
         IF r.ok THEN [exc |-> "none", val |-> r.val]
         ELSE [exc |-> "JSONDecodeError", val |-> [t |-> "none", v |-> <<>>]]

\* load_cache(path), lines 24-31: exc is the exception it lets out
LoadCache(file) ==
    IF file.st = "absent" THEN [exc |-> "none", val |-> ObjV(<<>>)]
    ELSE IF file.st = "unreadable"
    THEN [exc |-> "none", val |-> ObjV(<<>>)]      \* open/read raised: caught
    ELSE LET r == Loads(file.text) IN
         IF r.ok THEN [exc |-> "none", val |-> r.val]
         ELSE [exc |-> "none", val |-> ObjV(<<>>)]  \* json.load raised: caught

\* a caller's call of save_cache(cache, path)
CallSave(back) ==
    /\ saving' = cache /\ written0' = 0 /\ ret' = back
    /\ pc' = "sv_open"

\* save_cache has returned to its caller: its frame is gone
PopSave == saving' = NoneV /\ written0' = 0 /\ ret' = "none"

\* line 37: open(tmp, 'w') creates or truncates the temporary file
SvOpen ==
    /\ pc = "sv_open"
    /\ tmpFile' = [st |-> "file", text |-> <<>>]
    /\ pc' = "sv_write"
    /\ UNCHANGED <<inputFile, outDisk, outBuf, cacheFile, procVars, cache,
                   frameVars, exc, callObs, unitObs, saveObs, procObs, runObs, otherVars>>

\* a save that writes the cache file in place instead of a temporary file
SvWriteInPlace ==
    /\ pc = "sv_write"
    /\ written0 < Len(Dumps(saving))
    /\ LET n == IF written0 + WriteChunk < Len(Dumps(saving))
                THEN written0 + WriteChunk ELSE Len(Dumps(saving))
       IN /\ cacheFile' = [st |-> "file", text |-> SubSeq(Dumps(saving), 1, n)]
          /\ tmpFile' = cacheFile'
          /\ written0' = n
    /\ UNCHANGED <<inputFile, outDisk, outBuf, procVars, cache,
                   frameVars, pc, exc, callObs, unitObs, saving, procObs,
                   runObs, otherVars>>

\* line 38: json.dump writes the text piece by piece, and the file holds a
\* prefix of it until the last piece is written
SvWrite ==
    /\ pc = "sv_write"
    /\ written0 < Len(Dumps(saving))
    /\ LET n == IF written0 + WriteChunk < Len(Dumps(saving))
                THEN written0 + WriteChunk ELSE Len(Dumps(saving))
       IN /\ tmpFile' = [st |-> "file", text |-> SubSeq(Dumps(saving), 1, n)]
          /\ written0' = n
    /\ UNCHANGED <<inputFile, outDisk, outBuf, cacheFile, procVars, cache,
                   frameVars, pc, exc, callObs, unitObs, saving, procObs,
                   runObs, otherVars>>

\* line 39: os.replace(tmp, path) puts the finished file in place in one step
SvReplace ==
    /\ pc = "sv_write"
    /\ written0 = Len(Dumps(saving))
    /\ cacheFile' = tmpFile
    /\ tmpFile' = NoFile
    /\ pc' = "sv_return"
    /\ UNCHANGED <<inputFile, outDisk, outBuf, procVars, cache, frameVars, exc,
                   callObs, unitObs, saveObs, procObs, runObs, otherVars>>

\* lines 40-41: open, write or replace raised; a warning is printed
SvFail ==
    /\ pc \in {"sv_open", "sv_write"}
    /\ pc' = "sv_return"
    /\ UNCHANGED <<fileVars, procVars, cache, frameVars, exc, callObs, unitObs,
                   saveObs, procObs, runObs, otherVars>>

\* the process is terminated from outside: what is buffered is lost
Kill ==
    /\ pc \notin {"done", "crashed", "killed"}
    /\ pc' = "killed"
    /\ outBuf' = <<>>
    /\ UNCHANGED <<inputFile, outDisk, cacheFile, tmpFile, procVars, cache,
                   frameVars, exc, callObs, unitObs, saveObs, procObs, runObs, otherVars>>

\* ------------------------------------------- the cache store on its own
CacheFiles ==
    {NoFile,
     [st |-> "unreadable", text |-> <<>>],
     [st |-> "file", text |-> <<>>],
     [st |-> "file", text |-> <<"{", Q, "x", Q, ":">>],
     [st |-> "file", text |-> <<"{", Q, "x", Q, ":", Q, "vi0", "x", Q, "}">>],
     [st |-> "file", text |-> <<"[", Q, "x", Q, "]">>],
     [st |-> "file", text |-> <<Q, "x", Q>>],
     [st |-> "file", text |-> <<"5">>]}

CacheKeys == {<<"x">>, <<"y">>}

\* line 75
CLoad ==
    /\ pc = "c_load"
    /\ IF LoadCache(cacheFile).exc = "none"
       THEN /\ cache' = LoadCache(cacheFile).val
            /\ pc' = "c_idle" /\ exc' = exc
       ELSE /\ Raise(LoadCache(cacheFile).exc) /\ cache' = cache
    /\ UNCHANGED <<fileVars, procVars, frameVars, callObs, unitObs, saveObs,
                   procObs, runObs, otherVars>>

\* line 58 on its own: a translation is stored
CPut ==
    /\ pc = "c_idle"
    /\ ncalls < MaxCalls
    /\ cache.t = "obj"
    /\ \E key \in CacheKeys :
        /\ ~HasKey(cache.v, key)                  \* line 48 returned otherwise
        /\ \E r \in ProviderResults(key) :
            cache' = ObjV(Put(cache.v, key, StrV(r)))
    /\ ncalls' = ncalls + 1
    /\ UNCHANGED <<fileVars, procVars, frameVars, pc, exc, callObs, prev,
                   saveObs, procObs, runObs, otherVars>>

\* lines 167, 172
CSave ==
    /\ pc = "c_idle"
    /\ CallSave("store")
    /\ UNCHANGED <<fileVars, procVars, cache, text, retries, attempt, result,
                   exc, callObs, unitObs, procObs, runObs, otherVars>>

CSaveReturn ==
    /\ pc = "sv_return"
    /\ ret = "store"
    /\ PopSave
    /\ pc' = "c_idle"
    /\ UNCHANGED <<fileVars, procVars, cache, text, retries, attempt, result,
                   exc, callObs, unitObs, procObs, runObs, otherVars>>

InitC ==
    /\ MeshIdle /\ ConvIdle /\ SectIdle
    /\ InitLocals /\ InitNoBatch
    /\ pc = "c_load"
    /\ cacheFile \in CacheFiles
    /\ cache = NoneV
    /\ cache0 = NoneV

NextC ==
    CLoad \/ CPut \/ CSave \/ SvOpen \/ SvWrite \/ SvReplace \/ SvFail
    \/ CSaveReturn \/ Kill

SpecC == InitC /\ [][NextC]_vars
\* -------------------------------------------------------------- process
FlushEvery == 50     \* written % 50 == 0

\* f_out.write reaching the file opened at its end: text written after a line
\* that has no newline yet continues that line
AppendLine(lines, l) ==
    IF Len(lines) > 0 /\ ~lines[Len(lines)].nl
    THEN [lines EXCEPT ![Len(lines)] =
            [text |-> lines[Len(lines)].text \o l.text, nl |-> l.nl]]
    ELSE Append(lines, l)

RECURSIVE AppendLines(_, _)
AppendLines(lines, buf) ==
    IF buf = <<>> THEN lines
    ELSE AppendLines(AppendLine(lines, Head(buf)), Tail(buf))

\* f_out.flush(), or the flush that closing f_out does
Flush(disk, buf) ==
    IF buf = <<>> THEN disk
    ELSE [exists |-> TRUE, lines |-> AppendLines(disk.lines, buf)]

\* lines 88-94 for one line: the id it adds to existing_ids, if any.  Only a
\* line that decodes to a dict takes part: on any other value the membership
\* test or the subscript raises, and so does set.add on an unhashable id.
LineAddsId(l) ==
    LET r == Loads(l.text) IN
    /\ r.ok
    /\ r.val.t = "obj"
    /\ HasKey(r.val.v, <<"mesh_id">>)
    /\ Hashable(Get(r.val.v, <<"mesh_id">>))

\* lines 88-94 over the lines the file iterator hands out
ResumeIds(lines) ==
    {Get(Loads(lines[i].text).val.v, <<"mesh_id">>) :
        i \in {j \in 1..Len(lines) : LineAddsId(lines[j])}}

\* bytes that are not valid UTF-8: reading them as text raises
BadByte == "0xFF"
HasBadByte(l) == \E i \in 1..Len(l.text) : l.text[i] = BadByte

\* lines 85-97: the resume scan of the existing output, for each thing the
\* reader can do.  The file is decoded block by block: a block holding invalid
\* bytes raises UnicodeDecodeError out of the for statement before any of its
\* lines is handed out, line 96 catches it and the scan ends with the ids of
\* the blocks before (none in a file of one block).
ResumeScans(lines) ==
    IF \A i \in 1..Len(lines) : ~HasBadByte(lines[i])
    THEN {ResumeIds(lines)}
    ELSE LET b == CHOOSE i \in 1..Len(lines) :
                    /\ HasBadByte(lines[i])
                    /\ \A j \in 1..(i - 1) : ~HasBadByte(lines[j])
         IN {ResumeIds(SubSeq(lines, 1, n)) : n \in 0..(b - 1)}

NewRec(o) ==
    [obj |-> o, called |-> FALSE, skipped |-> FALSE, lines |-> 0, out |-> NoneV,
     termFail |-> FALSE, defFail |-> FALSE, tv |-> NoneV, dv |-> NoneV]

\* the provider was called and failed every time
AllFailed(os) == Len(os) > 0 /\ \A i \in 1..Len(os) : os[i] # "ok"

\* lines 75-76: load the cache and print its size
PStart ==
    /\ pc = "p_start"
    /\ IF LoadCache(cacheFile).exc # "none"
       THEN /\ Raise(LoadCache(cacheFile).exc) /\ cache' = cache
       ELSE /\ cache' = LoadCache(cacheFile).val
            /\ IF LoadCache(cacheFile).val.t \in {"num", "none"}
               THEN Raise("TypeError")             \* len() of an int or None
               ELSE pc' = "p_resume" /\ exc' = exc
    /\ UNCHANGED <<fileVars, procVars, frameVars, callObs, unitObs, saveObs,
                   procObs, runObs, otherVars>>

\* lines 81-97
PResume ==
    /\ pc = "p_resume"
    /\ IF resume /\ outDisk.exists
       THEN existing_ids' \in ResumeScans(outDisk.lines)
       ELSE existing_ids' = {}
    /\ pc' = "p_open"
    /\ UNCHANGED <<fileVars, resume, pos, in_array, brace_count, current,
                   total_read, written, obj, cache, frameVars, exc, callObs,
                   unitObs, saveObs, procObs, runObs, otherVars>>

\* an open that appends whatever resume says
POpenAlwaysAppends ==
    /\ pc = "p_open"
    /\ outDisk' = [exists |-> TRUE, lines |-> outDisk.lines]
    /\ pos' = 1 /\ in_array' = FALSE /\ brace_count' = 0 /\ current' = <<>>
    /\ total_read' = 0
    /\ pc' = "p_scan"
    /\ UNCHANGED <<inputFile, outBuf, cacheFile, tmpFile, resume, existing_ids,
                   written, obj, cache, frameVars, exc, callObs, unitObs,
                   saveObs, procObs, runObs, otherVars>>

\* lines 100-105: 'a' keeps the output, 'w' empties it; both create it
POpen ==
    /\ pc = "p_open"
    /\ outDisk' = [exists |-> TRUE,
                   lines |-> IF resume THEN outDisk.lines ELSE <<>>]
    /\ pos' = 1 /\ in_array' = FALSE /\ brace_count' = 0 /\ current' = <<>>
    /\ total_read' = 0
    /\ pc' = "p_scan"
    /\ UNCHANGED <<inputFile, outBuf, cacheFile, tmpFile, resume, existing_ids,
                   written, obj, cache, frameVars, exc, callObs, unitObs,
                   saveObs, procObs, runObs, otherVars>>

\* lines 107-139: one character of the input, up to the decision to skip the
\* record it may complete
PScan ==
    /\ pc = "p_scan"
    /\ pos <= Len(inputFile)
    /\ LET ch == inputFile[pos]
           bc1 == IF ch = "{" THEN brace_count + 1 ELSE brace_count
           cur1 == IF bc1 > 0 THEN Append(current, ch) ELSE current
           bc2 == IF ch = "}" THEN bc1 - 1 ELSE bc1
           r == Loads(cur1)
           mesh_id == Get(r.val.v, <<"mesh_id">>)
       IN
       /\ pos' = pos + 1
       /\ IF ~in_array
          THEN /\ in_array' = (ch = "[")
               /\ UNCHANGED <<brace_count, current, total_read, obj, pc, exc,
                              reports, recs>>
          ELSE
            /\ in_array' = in_array
            /\ brace_count' = bc2
            /\ IF ch = "}" /\ bc2 = 0
               THEN IF ~r.ok
                    THEN /\ reports' = reports + 1
                         /\ current' = <<>>
                         /\ UNCHANGED <<total_read, obj, pc, exc, recs>>
                    ELSE /\ current' = <<>>
                         /\ total_read' = total_read + 1
                         /\ obj' = r.val
                         /\ reports' = reports
                         /\ IF resume /\ Truthy(mesh_id)
                            THEN IF ~Hashable(mesh_id)
                                 THEN /\ Raise("TypeError")
                                      /\ recs' = Append(recs, NewRec(r.val))
                                 ELSE IF mesh_id \in existing_ids
                                 THEN /\ recs' = Append(recs,
                                           [NewRec(r.val) EXCEPT !.skipped = TRUE])
                                      /\ UNCHANGED <<pc, exc>>
                                 ELSE /\ recs' = Append(recs, NewRec(r.val))
                                      /\ pc' = "p_term" /\ exc' = exc
                            ELSE /\ recs' = Append(recs, NewRec(r.val))
                                 /\ pc' = "p_term" /\ exc' = exc
               ELSE /\ current' = cur1
                    /\ UNCHANGED <<total_read, obj, pc, exc, reports, recs>>
    /\ UNCHANGED <<fileVars, resume, existing_ids, written, cache, frameVars,
                   callObs, unitObs, saveObs, out0, src, runObs, otherVars>>

\* lines 142-144
PTerm ==
    /\ pc = "p_term"
    /\ IF Truthy(Get(obj.v, <<"term_en">>))
       THEN /\ CallTranslate(Get(obj.v, <<"term_en">>), ProcessRetries,
                              "term")
            /\ lastEvent' = lastEvent
       ELSE /\ pc' = "p_def" /\ UNCHANGED <<frameVars, callObs>>
            /\ lastEvent' = "delay"                \* line 149
    /\ UNCHANGED <<fileVars, procVars, cache, exc, unitObs, saveObs, procObs,
                   ended, otherVars>>

\* a return that stores whatever translate_text gave, None included
PTermRetAlwaysStores ==
    /\ pc = "tt_return"
    /\ ret = "term"
    /\ obj' = ObjV(Put(obj.v, <<"term_vi">>, result))
    /\ recs' = [recs EXCEPT ![Len(recs)].termFail = AllFailed(outcomes),
                            ![Len(recs)].tv = result]
    /\ PopFrame
    /\ lastEvent' = "delay"                        \* line 149
    /\ pc' = "p_def"
    /\ UNCHANGED <<fileVars, resume, existing_ids, pos, in_array, brace_count,
                   current, total_read, written, cache, exc, unitObs, saveObs,
                   reports, out0, src, ended, otherVars>>

\* lines 145-149
PTermRet ==
    /\ pc = "tt_return"
    /\ ret = "term"
    /\ obj' = IF Truthy(result)
              THEN ObjV(Put(obj.v, <<"term_vi">>, result)) ELSE obj
    /\ recs' = [recs EXCEPT ![Len(recs)].termFail = AllFailed(outcomes),
                            ![Len(recs)].tv = result]
    /\ PopFrame
    /\ lastEvent' = "delay"                        \* line 149
    /\ pc' = "p_def"
    /\ UNCHANGED <<fileVars, resume, existing_ids, pos, in_array, brace_count,
                   current, total_read, written, cache, exc, unitObs, saveObs,
                   reports, out0, src, ended, otherVars>>

\* lines 152-154
PDef ==
    /\ pc = "p_def"
    /\ IF Truthy(Get(obj.v, <<"definition">>))
       THEN /\ CallTranslate(Get(obj.v, <<"definition">>), ProcessRetries,
                              "def")
            /\ lastEvent' = lastEvent
       ELSE /\ pc' = "p_write" /\ UNCHANGED <<frameVars, callObs>>
            /\ lastEvent' = "delay"                \* line 159
    /\ UNCHANGED <<fileVars, procVars, cache, exc, unitObs, saveObs, procObs,
                   ended, otherVars>>

\* lines 155-159
PDefRet ==
    /\ pc = "tt_return"
    /\ ret = "def"
    /\ obj' = IF Truthy(result)
              THEN ObjV(Put(obj.v, <<"definition_vi">>, result)) ELSE obj
    /\ recs' = [recs EXCEPT ![Len(recs)].defFail = AllFailed(outcomes),
                            ![Len(recs)].dv = result]
    /\ PopFrame
    /\ lastEvent' = "delay"                        \* line 159
    /\ pc' = "p_write"
    /\ UNCHANGED <<fileVars, resume, existing_ids, pos, in_array, brace_count,
                   current, total_read, written, cache, exc, unitObs, saveObs,
                   reports, out0, src, ended, otherVars>>

\* a write that tests the count before adding the line to it
PWriteCountsLate ==
    /\ pc = "p_write"
    /\ outBuf' = Append(outBuf, [text |-> Dumps(obj), nl |-> TRUE])
    /\ written' = written + 1
    /\ recs' = [recs EXCEPT ![Len(recs)].lines = @ + 1, ![Len(recs)].out = obj]
    /\ IF written % FlushEvery = 0
       THEN CallSave("periodic")
       ELSE pc' = "p_scan" /\ UNCHANGED <<ret, saveObs>>
    /\ UNCHANGED <<inputFile, outDisk, cacheFile, tmpFile, resume, existing_ids,
                   pos, in_array, brace_count, current, total_read, obj, cache,
                   text, retries, attempt, result, exc, callObs, unitObs,
                   reports, out0, src, runObs, otherVars>>

\* a write that also remembers the id of the record it wrote
PWriteRemembersId ==
    /\ pc = "p_write"
    /\ outBuf' = Append(outBuf, [text |-> Dumps(obj), nl |-> TRUE])
    /\ written' = written + 1
    /\ recs' = [recs EXCEPT ![Len(recs)].lines = @ + 1, ![Len(recs)].out = obj]
    /\ IF (written + 1) % FlushEvery = 0
       THEN CallSave("periodic")
       ELSE pc' = "p_scan" /\ UNCHANGED <<ret, saveObs>>
    /\ existing_ids' = existing_ids \cup {Get(obj.v, <<"mesh_id">>)}
    /\ UNCHANGED <<inputFile, outDisk, cacheFile, tmpFile, resume,
                   pos, in_array, brace_count, current, total_read, obj, cache,
                   text, retries, attempt, result, exc, callObs, unitObs,
                   reports, out0, src, runObs, otherVars>>

\* a write that puts the line before the lines that wait in the buffer
PWritePrepends ==
    /\ pc = "p_write"
    /\ outBuf' = <<[text |-> Dumps(obj), nl |-> TRUE]>> \o outBuf
    /\ written' = written + 1
    /\ recs' = [recs EXCEPT ![Len(recs)].lines = @ + 1, ![Len(recs)].out = obj]
    /\ IF (written + 1) % FlushEvery = 0
       THEN CallSave("periodic")
       ELSE pc' = "p_scan" /\ UNCHANGED <<ret, saveObs>>
    /\ UNCHANGED <<inputFile, outDisk, cacheFile, tmpFile, resume, existing_ids,
                   pos, in_array, brace_count, current, total_read, obj, cache,
                   text, retries, attempt, result, exc, callObs, unitObs,
                   reports, out0, src, runObs, otherVars>>

\* lines 162-167: write the line; every FlushEvery lines persist the cache
PWrite ==
    /\ pc = "p_write"
    /\ outBuf' = Append(outBuf, [text |-> Dumps(obj), nl |-> TRUE])
    /\ written' = written + 1
    /\ recs' = [recs EXCEPT ![Len(recs)].lines = @ + 1, ![Len(recs)].out = obj]
    /\ IF (written + 1) % FlushEvery = 0
       THEN CallSave("periodic")
       ELSE pc' = "p_scan" /\ UNCHANGED <<ret, saveObs>>
    /\ UNCHANGED <<inputFile, outDisk, cacheFile, tmpFile, resume, existing_ids,
                   pos, in_array, brace_count, current, total_read, obj, cache,
                   text, retries, attempt, result, exc, callObs, unitObs,
                   reports, out0, src, runObs, otherVars>>

\* lines 168-169: after the periodic save, flush the output
PFlush ==
    /\ pc = "sv_return"
    /\ ret = "periodic"
    /\ outDisk' = Flush(outDisk, outBuf)
    /\ outBuf' = <<>>
    /\ PopSave
    /\ pc' = "p_scan"
    /\ UNCHANGED <<inputFile, cacheFile, tmpFile, procVars, cache, text,
                   retries, attempt, result, exc, callObs, unitObs, procObs,
                   runObs, otherVars>>

\* lines 109-110, 172: end of input; the with-block closes both files, then
\* the final save
PEof ==
    /\ pc = "p_scan"
    /\ pos > Len(inputFile)
    /\ outDisk' = Flush(outDisk, outBuf)
    /\ outBuf' = <<>>
    /\ CallSave("final")
    /\ UNCHANGED <<inputFile, cacheFile, tmpFile, procVars, cache, text,
                   retries, attempt, result, exc, callObs, unitObs, procObs,
                   runObs, otherVars>>

\* lines 173-176
PDone ==
    /\ pc = "sv_return"
    /\ ret = "final"
    /\ PopSave
    /\ pc' = "done"
    /\ UNCHANGED <<fileVars, procVars, cache, text, retries, attempt, result,
                   exc, callObs, unitObs, procObs, runObs, otherVars>>
\* the stack unwinds: leaving the with-block closes (and so flushes) f_out
Unwind ==
    /\ pc = "raising"
    /\ outDisk' = Flush(outDisk, outBuf)
    /\ outBuf' = <<>>
    /\ pc' = "crashed"
    /\ UNCHANGED <<inputFile, cacheFile, tmpFile, procVars, cache, frameVars,
                   exc, callObs, unitObs, saveObs, procObs, runObs, otherVars>>

\* ------------------------------------------------- the inputs of a run
MaxRecords == 2      \* elements of an input array
BulkRecords == 51    \* elements of the long input array

Pair(key, val) == [k |-> <<key>>, val |-> val]

\* the objects an input array is made of
Records ==
    {<<Pair("mesh_id", StrV(<<"A">>)), Pair("term_en", StrV(<<"x">>))>>,
     <<Pair("mesh_id", StrV(<<"B">>)), Pair("term_en", StrV(<<"x">>)),
       Pair("definition", StrV(<<"y">>))>>,
     <<Pair("mesh_id", StrV(<<"C">>)), Pair("definition", StrV(<<" ">>))>>,
     <<Pair("mesh_id", StrV(<<>>))>>,
     <<Pair("mesh_id", ListV(<<StrV(<<"A">>)>>))>>,
     <<Pair("mesh_id", StrV(<<"C">>)), Pair("term_en", NumV("5"))>>,
     <<Pair("term_en", StrV(<<"}">>))>>,
     <<Pair("definition", StrV(<<"{", "[">>))>>,
     <<Pair("n", ObjV(<<Pair("mesh_id", StrV(<<"A">>))>>))>>}

\* element texts that are no JSON: a missing colon; and, for the end of a
\* file that was cut short, an object that is never closed
MalformedTexts == {<<"{", Q, "mesh_id", Q, Q, "A", Q, "}">>}
TruncatedTexts == {<<"{", Q, "mesh_id", Q, ":">>}

ElemTexts == {Dumps(ObjV(r)) : r \in Records} \cup MalformedTexts

RECURSIVE Join(_)
Join(es) ==
    IF es = <<>> THEN <<>>
    ELSE IF Len(es) = 1 THEN es[1]
    ELSE es[1] \o <<",">> \o Join(Tail(es))

\* the file made of the elements es, closed, or cut short inside a last element
FileOf(es, tail) ==
    IF tail = <<>> THEN <<"[">> \o Join(es) \o <<"]">>
    ELSE <<"[">> \o Join(Append(es, tail))

ElemSeqs == UNION {[1..n -> ElemTexts] : n \in 0..MaxRecords}

Line(r) == [text |-> Dumps(ObjV(r)), nl |-> TRUE]

\* the output file a run may find
OutFiles ==
    {NoOut,
     [exists |-> TRUE,
      lines |-> <<Line(<<Pair("mesh_id", StrV(<<"A">>))>>),
                  Line(<<Pair("mesh_id", StrV(<<"B">>))>>)>>],
     [exists |-> TRUE,
      lines |-> <<[text |-> <<"{", Q>>, nl |-> TRUE],
                  Line(<<Pair("mesh_id", StrV(<<>>))>>),
                  Line(<<Pair("mesh_id", StrV(<<"C">>))>>)>>],
     [exists |-> TRUE,
      lines |-> <<Line(<<Pair("mesh_id", StrV(<<"B">>))>>),
                  [text |-> <<"{", Q, "mesh_id", Q, ":", Q, "A", Q>>,
                   nl |-> FALSE]>>]}

\* output files with a line the resume scan cannot take in: bytes that are
\* not text, and an id that is a list (written by a run without resume)
ScanOutFiles ==
    {[exists |-> TRUE,
      lines |-> <<Line(<<Pair("mesh_id", StrV(<<"A">>))>>),
                  [text |-> <<BadByte>>, nl |-> TRUE],
                  Line(<<Pair("mesh_id", StrV(<<"B">>))>>)>>],
     [exists |-> TRUE,
      lines |-> <<Line(<<Pair("mesh_id", ListV(<<StrV(<<"A">>)>>))>>),
                  Line(<<Pair("mesh_id", StrV(<<"B">>))>>)>>]}

\* records that come with a translation already in them
TranslatedRecords ==
    {<<Pair("mesh_id", StrV(<<"A">>)), Pair("term_en", StrV(<<" ">>)),
       Pair("term_vi", StrV(<<"old">>))>>}

\* the cache file a run may find
RunCacheFiles ==
    {NoFile,
     [st |-> "file", text |-> <<"{", Q, "x", Q, ":", Q, "vi0", "x", Q, "}">>]}

BulkElems == [i \in 1..BulkRecords |-> <<"{", "}">>]

\* the settings of a run: --no-resume, the output and the cache it finds
RunConfigs ==
    {[resume |-> TRUE, out |-> o, cf |-> NoFile] : o \in OutFiles}
    \cup {[resume |-> FALSE, out |-> o, cf |-> NoFile] :
             o \in {f \in OutFiles : f.exists /\ Len(f.lines) = 2}}
    \cup {[resume |-> TRUE, out |-> NoOut, cf |-> c] : c \in RunCacheFiles}

InitP ==
    /\ MeshIdle /\ ConvIdle /\ SectIdle
    /\ InitLocals
    /\ pc = "p_start"
    /\ cache = NoneV /\ cache0 = NoneV
    /\ \/ /\ \E es \in ElemSeqs, tail \in {<<>>} \cup TruncatedTexts :
                src = [elems |-> es, tail |-> tail]
          /\ \E c \in RunConfigs :
                resume = c.resume /\ outDisk = c.out /\ cacheFile = c.cf
       \/ /\ src = [elems |-> BulkElems, tail |-> <<>>]
          /\ resume = TRUE
          /\ outDisk = NoOut
          /\ cacheFile = NoFile
       \/ /\ \E es \in [1..1 -> ElemTexts] : src = [elems |-> es, tail |-> <<>>]
          /\ resume = TRUE
          /\ outDisk \in ScanOutFiles
          /\ cacheFile = NoFile
       \/ /\ \E r \in TranslatedRecords :
                src = [elems |-> <<Dumps(ObjV(r))>>, tail |-> <<>>]
          /\ resume = TRUE
          /\ outDisk = NoOut
          /\ cacheFile = NoFile
       \/ /\ src = [elems |-> <<Dumps(ObjV(<<Pair("mesh_id", StrV(<<"A">>)),
                                              Pair("term_en", StrV(<<"y">>))>>))>>,
                     tail |-> <<>>]
          /\ resume = TRUE
          /\ outDisk = NoOut
          /\ cacheFile \in CacheFiles
    /\ inputFile = FileOf(src.elems, src.tail)
    /\ out0 = outDisk

NextP ==
    PStart \/ PResume \/ POpen \/ PScan \/ PTerm \/ PTermRet \/ PDef \/ PDefRet
    \/ PWrite \/ PFlush \/ PEof \/ PDone \/ Unwind
    \/ TEnter \/ TAttempt \/ TExhausted
    \/ SvOpen \/ SvWrite \/ SvReplace \/ SvFail

SpecP == InitP /\ [][NextP]_vars

\* everything together
Init == InitT \/ InitC \/ InitP
Next == NextT \/ NextC \/ NextP
Spec == Init /\ [][Next]_vars

\* ------------------------------------ a run ended, and the job run again
\* what reached the file of a line the process was writing when it died
PartialLine(l) == [text |-> SubSeq(l.text, 1, Len(l.text) - 1), nl |-> FALSE]

\* the output file after the process died with buf not flushed: the buffer
\* may have been written out up to any point, inside a line included
Spilled(disk, buf) ==
    {Flush(disk, SubSeq(buf, 1, n)) : n \in 0..Len(buf)}
    \cup {Flush(disk, Append(SubSeq(buf, 1, n), PartialLine(buf[n + 1]))) :
             n \in 0..(Len(buf) - 1)}

\* the memory of the process is gone; a new process starts from nothing
ResetLocals ==
    /\ outBuf' = <<>>
    /\ existing_ids' = {} /\ pos' = 0 /\ in_array' = FALSE
    /\ brace_count' = 0 /\ current' = <<>> /\ total_read' = 0 /\ written' = 0
    /\ obj' = NoneV /\ cache' = NoneV
    /\ text' = NoneV /\ retries' = 0 /\ attempt' = 0 /\ result' = NoneV
    /\ ret' = "none" /\ exc' = "none"
    /\ outcomes' = <<>> /\ sleeps' = <<>> /\ logged' = FALSE /\ cache0' = NoneV
    /\ prev' = <<>> /\ ncalls' = 0
    /\ saving' = NoneV /\ written0' = 0
    /\ reports' = 0 /\ recs' = <<>>
    /\ lastEvent' = "none"

\* process() is terminated from outside at any point of its first run
PKill ==
    /\ pc \notin {"done", "crashed", "killed"}
    /\ ended = <<>>
    /\ outDisk' \in Spilled(outDisk, outBuf)
    /\ ResetLocals
    /\ pc' = "killed"
    /\ UNCHANGED <<inputFile, cacheFile, tmpFile, resume, out0, src, ended, otherVars>>

\* lines 179-188: the job is invoked again, with resume, on the same input,
\* output and cache paths
Rerun ==
    /\ pc \in {"killed", "done"}
    /\ ended = <<>>
    /\ ended' = <<pc>>
    /\ ResetLocals
    /\ resume' = TRUE
    /\ out0' = outDisk
    /\ pc' = "p_start"
    /\ UNCHANGED <<inputFile, outDisk, cacheFile, tmpFile, src, otherVars>>

\* the records of the inputs of a job that is run twice
RerunRecords ==
    {<<Pair("mesh_id", StrV(<<"A">>)), Pair("term_en", StrV(<<"x">>))>>,
     <<Pair("mesh_id", StrV(<<"C">>)), Pair("definition", StrV(<<" ">>))>>,
     <<Pair("mesh_id", StrV(<<>>))>>,
     <<Pair("mesh_id", ListV(<<StrV(<<"A">>)>>))>>}

RerunSeqs ==
    UNION {[1..n -> {Dumps(ObjV(r)) : r \in RerunRecords}] : n \in 0..MaxRecords}

InitR ==
    /\ MeshIdle /\ ConvIdle /\ SectIdle
    /\ InitLocals
    /\ pc = "p_start"
    /\ cache = NoneV /\ cache0 = NoneV
    /\ \/ \E es \in RerunSeqs : src = [elems |-> es, tail |-> <<>>]
       \/ src = [elems |-> BulkElems, tail |-> <<>>]
    /\ resume = TRUE /\ outDisk = NoOut /\ cacheFile = NoFile
    /\ inputFile = FileOf(src.elems, src.tail)
    /\ out0 = outDisk

NextR == NextP \/ PKill \/ Rerun

SpecR == InitR /\ [][NextR]_vars

\* ============================================================ crawl_mesh.py
\* Texts are sequences of symbols, as above.  A line of the model's reply is
\* a sequence of symbols too: "[ITEM_", an index token, "]", text.
BATCH_SIZE == 50
MaxItems == 2       \* records of a MeSH file besides the one of 51
MaxList == 3        \* items of a list handed to gemini_batch_translate
MaxReply == 2       \* lines of a reply of the model

IdxToks == {"-4", "-1", "0", "1", "2"}
\* int(idx_str): defined on one index token, ValueError on anything else
IsInt(str) == Len(str) = 1 /\ str[1] \in IdxToks
IntOf(tok) ==
    CASE tok = "-4" -> -4 [] tok = "-1" -> -1 [] tok = "0" -> 0
      [] tok = "1" -> 1 [] tok = "2" -> 2
\* the position of the first c in str, 0 when there is none
Find(str, c) ==
    IF \E j \in 1..Len(str) : str[j] = c
    THEN CHOOSE j \in 1..Len(str) :
            str[j] = c /\ \A h \in 1..(j - 1) : str[h] # c
    ELSE 0
\* str.replace(c, "")
Remove(str, c) == SelectSeq(str, LAMBDA x : x # c)

\* lines 96-108 with an index outside the list growing the list
ParseLineAppends(translations, line0) ==
    LET line == Strip(line0)
        k == Find(line, "]")
    IN  IF Len(line) = 0 \/ line[1] # "[ITEM_" THEN translations
        ELSE IF k = 0 THEN translations
        ELSE
          LET prefix == SubSeq(line, 1, k - 1)
              rest == SubSeq(line, k + 1, Len(line))
              idx_str == Remove(prefix, "[ITEM_")
          IN  IF ~IsInt(idx_str) THEN translations
              ELSE
                LET idx == IntOf(idx_str[1])
                    n == Len(translations)
                    j == IF idx < 0 THEN idx + n ELSE idx
                IN  IF j < 0 \/ j >= n THEN Append(translations, Strip(rest))
                    ELSE [translations EXCEPT ![j + 1] = Strip(rest)]
\* one round of the loop of lines 96-108: a line that does not start with
\* the tag is skipped; a line without "]" (unpacking one value), an index
\* that is no integer and an index outside the list raise inside the try and
\* are skipped; a negative index counts from the end of the list
ParseLine(translations, line0) ==
    LET line == Strip(line0)
        k == Find(line, "]")
    IN  IF Len(line) = 0 \/ line[1] # "[ITEM_" THEN translations
        ELSE IF k = 0 THEN translations
        ELSE
          LET prefix == SubSeq(line, 1, k - 1)
              rest == SubSeq(line, k + 1, Len(line))
              idx_str == Remove(prefix, "[ITEM_")
          IN  IF ~IsInt(idx_str) THEN translations
              ELSE
                LET idx == IntOf(idx_str[1])
                    n == Len(translations)
                    j == IF idx < 0 THEN idx + n ELSE idx
                IN  IF j < 0 \/ j >= n THEN translations
                    ELSE [translations EXCEPT ![j + 1] = Strip(rest)]
RECURSIVE ParseReply(_, _)
ParseReply(translations, lines) ==
    IF lines = <<>> THEN translations
    ELSE ParseReply(ParseLine(translations, Head(lines)), Tail(lines))

NotCalled == [kind |-> "not_called", lines |-> <<>>]
\* does the call reach the request (lines 41-48)
Requests(list) == \E j \in 1..Len(list) : Len(Strip(list[j])) > 0
\* the value of gemini_batch_translate(list) when the endpoint does o
gemini_batch_translate(list, o) ==
    IF list = <<>> THEN <<>>
    ELSE IF ~Requests(list) THEN [j \in 1..Len(list) |-> <<>>]
    ELSE IF o.kind # "reply" THEN list
    ELSE ParseReply(list, o.lines)

\* what the endpoint can do: an HTTP error status, an exception of the
\* request, a body without the expected path, or a text of some lines
ReplyLines ==
    {<<"v">>, <<"[ITEM_", "0">>, <<"[ITEM_", "x", "]", "v">>,
     <<" ", "[ITEM_", "1", "]", " ", "w">>}
    \cup {<<"[ITEM_", d, "]", "v">> : d \in IdxToks \ {"1"}}
SeqsUpTo(S, n) == UNION {[1..m -> S] : m \in 0..n}
GOutcomes ==
    {[kind |-> k, lines |-> <<>>] : k \in {"http_error", "exception", "bad_json"}}
    \cup {[kind |-> "reply", lines |-> l] : l \in SeqsUpTo(ReplyLines, MaxReply)}
GLists == SeqsUpTo({<<>>, <<" ">>, <<"a">>}, MaxList)

\* a call of gemini_batch_translate on its own
GCall ==
    /\ pc = "g_idle" /\ pc' = "g_done"
    /\ \E list \in GLists, o \in GOutcomes :
        /\ text_list' = list
        /\ provider' = IF Requests(list) THEN o ELSE NotCalled
        /\ translated' = gemini_batch_translate(list, o)
    /\ UNCHANGED <<fileVars, procVars, cache, frameVars, exc, callObs,
                   unitObs, saveObs, procObs, runObs, mesh_items, term_vi_all,
                   def_vi_all, batch_start, convVars, sectVars>>

\* main, lines 212-224
MStart ==
    /\ pc = "m_start"
    /\ term_vi_all' = <<>> /\ def_vi_all' = <<>> /\ batch_start' = 0
    /\ pc' = "m_terms"
    /\ UNCHANGED <<fileVars, procVars, cache, frameVars, exc, callObs,
                   unitObs, saveObs, procObs, runObs, mesh_items, text_list,
                   translated, provider, convVars, sectVars>>
Batch(list) ==
    SubSeq(list, batch_start + 1,
           IF batch_start + BATCH_SIZE < Len(list)
           THEN batch_start + BATCH_SIZE ELSE Len(list))
\* one round of the loop of lines 228-233
MTermBatch ==
    /\ pc = "m_terms" /\ batch_start < Len(mesh_items)
    /\ LET batch == Batch([j \in 1..Len(mesh_items) |-> mesh_items[j].term_en])
       IN \E o \in GOutcomes :
            /\ text_list' = batch
            /\ translated' = gemini_batch_translate(batch, o)
            /\ term_vi_all' = term_vi_all \o translated'
    /\ batch_start' = batch_start + BATCH_SIZE
    /\ UNCHANGED <<fileVars, procVars, cache, frameVars, pc, exc, callObs,
                   unitObs, saveObs, procObs, runObs, mesh_items, def_vi_all,
                   provider, convVars, sectVars>>
MTermsDone ==
    /\ pc = "m_terms" /\ batch_start >= Len(mesh_items)
    /\ pc' = "m_defs" /\ batch_start' = 0
    /\ UNCHANGED <<fileVars, procVars, cache, frameVars, exc, callObs,
                   unitObs, saveObs, procObs, runObs, mesh_items, term_vi_all,
                   def_vi_all, text_list, translated, provider, convVars,
                   sectVars>>
\* one round of the loop of lines 237-242
MDefBatch ==
    /\ pc = "m_defs" /\ batch_start < Len(mesh_items)
    /\ LET batch ==
            Batch([j \in 1..Len(mesh_items) |-> mesh_items[j].definition_en])
       IN \E o \in GOutcomes :
            /\ text_list' = batch
            /\ translated' = gemini_batch_translate(batch, o)
            /\ def_vi_all' = def_vi_all \o translated'
    /\ batch_start' = batch_start + BATCH_SIZE
    /\ UNCHANGED <<fileVars, procVars, cache, frameVars, pc, exc, callObs,
                   unitObs, saveObs, procObs, runObs, mesh_items, term_vi_all,
                   provider, convVars, sectVars>>
MDefsDone ==
    /\ pc = "m_defs" /\ batch_start >= Len(mesh_items)
    /\ pc' = "m_assign" /\ batch_start' = 0
    /\ UNCHANGED <<fileVars, procVars, cache, frameVars, exc, callObs,
                   unitObs, saveObs, procObs, runObs, mesh_items, term_vi_all,
                   def_vi_all, text_list, translated, provider, convVars,
                   sectVars>>
\* the loop of lines 245-247: the items before the first index that one of
\* the lists does not have are assigned, then the IndexError leaves main
MAssign ==
    /\ pc = "m_assign"
    /\ LET n == Len(mesh_items)
           have == IF Len(term_vi_all) < Len(def_vi_all)
                   THEN Len(term_vi_all) ELSE Len(def_vi_all)
           upto == IF have < n THEN have ELSE n
       IN /\ mesh_items' =
                [j \in 1..n |->
                    IF j <= upto
                    THEN [term_en |-> mesh_items[j].term_en,
                          definition_en |-> mesh_items[j].definition_en,
                          term_vi |-> term_vi_all[j],
                          definition_vi |-> def_vi_all[j]]
                    ELSE mesh_items[j]]
          /\ IF upto < n
             THEN pc' = "raised" /\ exc' = "IndexError"
             ELSE pc' = "m_done" /\ exc' = exc
    /\ UNCHANGED <<fileVars, procVars, cache, frameVars, callObs,
                   unitObs, saveObs, procObs, runObs, term_vi_all,
                   def_vi_all, batch_start, text_list, translated, provider,
                   convVars, sectVars>>

\* parse_mesh (lines 167-207) keeps a record only with a term, stripped and
\* not empty; its definition is a stripped text or ""
MeshRecords ==
    {[term_en |-> t, definition_en |-> d] :
        t \in {<<"a">>}, d \in {<<>>, <<"d">>}}
MeshInputs ==
    SeqsUpTo(MeshRecords, MaxItems)
    \cup {[j \in 1..(BATCH_SIZE + 1) |->
            [term_en |-> <<"a">>, definition_en |-> <<>>]]}
InitG ==
    /\ InitLocals /\ InitNoBatch
    /\ cacheFile = NoFile /\ cache = NoneV /\ cache0 = NoneV
    /\ ConvIdle /\ SectIdle
    /\ term_vi_all = <<>> /\ def_vi_all = <<>> /\ batch_start = 0
    /\ text_list = <<>> /\ translated = <<>> /\ provider = NotCalled
    /\ \/ pc = "g_idle" /\ mesh_items = <<>>
       \/ pc = "m_start" /\ mesh_items \in MeshInputs
NextG ==
    \/ GCall
    \/ MStart \/ MTermBatch \/ MTermsDone \/ MDefBatch \/ MDefsDone \/ MAssign
SpecG == InitG /\ [][NextG]_vars

\* ======================================================= convert_to_json.py
\* The text of a row is a sequence of words; the words and the category
\* names are written without their diacritics.  Of the keyword lists of
\* lines 28-33 the model keeps the keywords that occur in these words.
MaxRows == 3        \* calls of convert_row_to_medical_item
RowWords == {"benh", "thuoc", "mg", "sot", "viem"}
MaxWords == 2
disease_keywords == {"benh", "viem", "u"}
drug_keywords == {"thuoc", "mg"}
symptom_keywords == {"sot", "viem"}
\* kw in text_content: a substring test on the joined, lowered text
KwIn(kw, words) ==
    \E j \in 1..Len(words) :
        words[j] = kw \/ (kw = "u" /\ words[j] = "thuoc")
KwCount(kws, words) == Cardinality({kw \in kws : KwIn(kw, words)})
Disease == "benh"
Drug == "thuoc"
Symptom == "Trieu chung/Dau hieu"
\* lines 22-49
detect_category(words) ==
    LET disease_count == KwCount(disease_keywords, words)
        drug_count == KwCount(drug_keywords, words)
        symptom_count == KwCount(symptom_keywords, words)
    IN  IF disease_count > drug_count /\ disease_count > symptom_count
        THEN Disease
        ELSE IF drug_count > symptom_count /\ drug_count > disease_count
        THEN Drug
        ELSE IF symptom_count > disease_count /\ symptom_count > drug_count
        THEN Symptom
        ELSE Disease
\* f"{n:03d}": the decimal digits of n, padded with zeros to three
Fmt03(n) ==
    IF n < 1000 THEN <<n \div 100, (n \div 10) % 10, n % 10>>
    ELSE <<n \div 1000, (n \div 100) % 10, (n \div 10) % 10, n % 10>>
\* lines 51-61: the id and the counters after the call.  The category is
\* compared with the English names 'Disease' and 'Drug'.
generate_id(category) ==
    IF category = "Disease"
    THEN [id |-> [prefix |-> "D_", digits |-> Fmt03(disease_counter + 1)],
          disease |-> disease_counter + 1, drug |-> drug_counter,
          symptom |-> symptom_counter]
    ELSE IF category = "Drug"
    THEN [id |-> [prefix |-> "DR_", digits |-> Fmt03(drug_counter + 1)],
          disease |-> disease_counter, drug |-> drug_counter + 1,
          symptom |-> symptom_counter]
    ELSE [id |-> [prefix |-> "S_", digits |-> Fmt03(symptom_counter + 1)],
          disease |-> disease_counter, drug |-> drug_counter,
          symptom |-> symptom_counter + 1]

\* a row: its words, and whether its column names are strings (col.lower()
\* of lines 69, 90, 131 raises AttributeError on any other name)
Rows ==
    {[words |-> w, cols_ok |-> c] :
        w \in SeqsUpTo(RowWords, MaxWords), c \in BOOLEAN}
\* one round of the loop of lines 228-234: convert_row_to_medical_item
\* (lines 182-201) on the next row; an exception of the extraction, raised
\* after generate_id has counted, is caught and the row is left out
ConvertRow ==
    /\ pc = "k_rows" /\ Len(conv_calls) < MaxRows
    /\ \E row \in Rows :
        LET category == detect_category(row.words)
            g == generate_id(category)
        IN  /\ disease_counter' = g.disease
            /\ drug_counter' = g.drug
            /\ symptom_counter' = g.symptom
            /\ conv_calls' = Append(conv_calls, category)
            /\ medical_items' =
                IF row.cols_ok
                THEN Append(medical_items,
                            [id |-> g.id, category |-> category,
                             index |-> Len(conv_calls) + 1])
                ELSE medical_items
    /\ UNCHANGED <<fileVars, procVars, cache, frameVars, pc, exc, callObs,
                   unitObs, saveObs, procObs, runObs, meshVars, sectVars>>
\* lines 236-255: the loop is over
ConvertDone ==
    /\ pc = "k_rows"
    /\ pc' = "k_done"
    /\ UNCHANGED <<fileVars, procVars, cache, frameVars, exc, callObs,
                   unitObs, saveObs, procObs, runObs, otherVars>>
InitK ==
    /\ InitLocals /\ InitNoBatch
    /\ cacheFile = NoFile /\ cache = NoneV /\ cache0 = NoneV
    /\ MeshIdle /\ SectIdle /\ ConvIdle
    /\ pc = "k_rows"
NextK == ConvertRow \/ ConvertDone
SpecK == InitK /\ [][NextK]_vars

\* ================================================== crawl_tamanh_section.py
\* One page of the site.  Titles are written without their diacritics; the
\* digests are those of the strings with them.
MaxToc == 2         \* links of the table of contents of the page
PageUrl == "https://tamanhhospital.vn/viem-hong/"
Titles == {"Nguyen nhan", "Trieu chung", "Hoi dap"}
Anchors == {"nguyen-nhan", "trieu-chung"}
\* lines 55-62: the title holds one of the FAQ phrases
is_faq_section(title) == title = "Hoi dap"
\* hashlib.md5(f"{url}#{x}").hexdigest()[:10] for url = PageUrl
Md5Hex10(url, x) ==
    CASE x = "Nguyen nhan" -> "40ede94584"
      [] x = "Trieu chung" -> "0a91ec4bb1"
      [] x = "Hoi dap" -> "0c1e337113"
      [] x = "nguyen-nhan" -> "382a561ae3"
      [] x = "trieu-chung" -> "563d2c7618"
\* lines 78-81
stable_id(url, anchor) == <<"TA_", Md5Hex10(url, anchor)>>

\* lines 200-207: the first of several equal (title, anchor) pairs is kept
RECURSIVE Dedup(_, _)
Dedup(raw, seen) ==
    IF raw = <<>> THEN <<>>
    ELSE IF Head(raw) \in seen THEN Dedup(Tail(raw), seen)
    ELSE <<Head(raw)>> \o Dedup(Tail(raw), seen \cup {Head(raw)})
\* lines 180-219 on a page whose table of contents holds the links p.raw and
\* whose anchors in p.h2 are the ids of h2 elements
extract_toc_items_h2(p) ==
    LET dedup == Dedup(p.raw, {})
        items == SelectSeq(dedup, LAMBDA it : it.anchor \in p.h2)
    IN  IF items # <<>> THEN items ELSE dedup

\* lines 258-271
SExtract ==
    /\ pc = "s_start"
    /\ toc_items' = extract_toc_items_h2(page)
    /\ records' = <<>>
    /\ IF toc_items' = <<>>
       THEN pc' = "s_done" /\ item_idx' = 0
       ELSE pc' = "s_items" /\ item_idx' = 1
    /\ UNCHANGED <<fileVars, procVars, cache, frameVars, exc, callObs,
                   unitObs, saveObs, procObs, runObs, meshVars, convVars,
                   page>>
\* one round of the loop of lines 273-293; the record also notes the anchor
\* of the item it was built from
SItem ==
    /\ pc = "s_items" /\ item_idx <= Len(toc_items)
    /\ LET title == toc_items[item_idx].title
           anchor == toc_items[item_idx].anchor
       IN records' =
            IF is_faq_section(title) \/ anchor \notin page.long
            THEN records
            ELSE Append(records,
                        [id |-> stable_id(page.url, title), title |-> title,
                         url |-> page.url, anchor |-> anchor])
    /\ item_idx' = item_idx + 1
    /\ UNCHANGED <<fileVars, procVars, cache, frameVars, pc, exc, callObs,
                   unitObs, saveObs, procObs, runObs, meshVars, convVars,
                   page, toc_items>>
\* line 296
SReturn ==
    /\ pc = "s_items" /\ item_idx > Len(toc_items)
    /\ pc' = "s_done"
    /\ UNCHANGED <<fileVars, procVars, cache, frameVars, exc, callObs,
                   unitObs, saveObs, procObs, runObs, otherVars>>

\* the pages: the links of the table of contents, each with a title and an
\* anchor (lines 192-197 drop a link without one of them), the anchors that
\* are ids of h2 elements, and the anchors whose section has
\* MIN_CONTENT_CHARS characters or more
TocLinks == {[title |-> t, anchor |-> a] : t \in Titles, a \in Anchors}
Pages ==
    {[url |-> PageUrl, raw |-> r, h2 |-> h, long |-> l] :
        r \in SeqsUpTo(TocLinks, MaxToc), h \in SUBSET Anchors,
        l \in SUBSET Anchors}
InitS ==
    /\ InitLocals /\ InitNoBatch
    /\ cacheFile = NoFile /\ cache = NoneV /\ cache0 = NoneV
    /\ MeshIdle /\ ConvIdle
    /\ page \in Pages
    /\ toc_items = <<>> /\ item_idx = 0 /\ records = <<>>
    /\ pc = "s_start"
NextS == SExtract \/ SItem \/ SReturn
SpecS == InitS /\ [][NextS]_vars

\* ================================================================ claims
Blank(txt) ==
    txt = NoneV \/ (txt.t = "str" /\ \A i \in 1..Len(txt.v) : txt.v[i] = " ")
NonBlankStr(txt) == txt.t = "str" /\ \E i \in 1..Len(txt.v) : txt.v[i] # " "
StrictlyIncreasing(q) == \A i \in 1..(Len(q) - 1) : q[i] < q[i + 1]
Objs(rs) == [i \in 1..Len(rs) |-> rs[i].obj]

\* the id occurs in a line of the output found at the start that decodes
InOutputBefore(id) ==
    \E i \in 1..Len(out0.lines) :
        LET r == Loads(out0.lines[i].text) IN
        r.ok /\ r.val.t = "obj" /\ HasKey(r.val.v, <<"mesh_id">>)
        /\ Get(r.val.v, <<"mesh_id">>) = id

\* the text of a file of lines
RECURSIVE FileText(_)
FileText(lines) ==
    IF lines = <<>> THEN <<>>
    ELSE Head(lines).text \o (IF Head(lines).nl THEN <<"\n">> ELSE <<>>)
         \o FileText(Tail(lines))

IsPrefix(p, q) == Len(p) <= Len(q) /\ SubSeq(q, 1, Len(p)) = p

\* C1: in a finished run with resume on an existing output, every decoded
\* record whose mesh_id occurs in a decodable line of that output had no
\* provider call and no line, every other decoded record got exactly one
\* line, and the text the output held before is still its beginning.
C1_ResumeSkipsWritten ==
    (pc = "done" /\ resume /\ out0.exists) =>
        /\ \A i \in 1..Len(recs) :
            IF /\ HasKey(recs[i].obj.v, <<"mesh_id">>)
               /\ InOutputBefore(Get(recs[i].obj.v, <<"mesh_id">>))
            THEN ~recs[i].called /\ recs[i].lines = 0
            ELSE recs[i].lines = 1
        /\ IsPrefix(FileText(out0.lines), FileText(outDisk.lines))

\* C2 as stated: a second call with the text of the call before it, a
\* non-blank text, makes no provider call and returns the cached value,
\* whatever the provider did on the first call (both calls with retries >= 1).
C2_SecondCallAlwaysCached ==
    (pc = "tt_return" /\ ret = "unit" /\ prev # <<>> /\ NonBlankStr(text)
     /\ prev[1].text = text /\ prev[1].retries >= 1 /\ retries >= 1) =>
        /\ outcomes = <<>>
        /\ cache0.t = "obj" /\ HasKey(cache0.v, text.v)
        /\ result = Get(cache0.v, text.v)

\* C2 amended: when the first of two calls with the same non-blank text
\* returned a translation, the second call makes no provider call and
\* returns that same value.
C2_SecondCallCachedAfterSuccess ==
    (pc = "tt_return" /\ ret = "unit" /\ prev # <<>> /\ NonBlankStr(text)
     /\ prev[1].text = text /\ prev[1].result # NoneV) =>
        /\ outcomes = <<>>
        /\ result = prev[1].result

C2_Witness ==
    /\ pc = "tt_return" /\ ret = "unit" /\ prev # <<>> /\ NonBlankStr(text)
    /\ prev[1].text = text
    /\ prev[1].outcomes # <<>> /\ prev[1].result # NoneV
    /\ outcomes = <<>> /\ result = prev[1].result

\* C3: when the input file is one valid JSON array of objects, a finished
\* run has decoded exactly the elements of the array, once each, in order.
C3_ScanDecodesArray ==
    (pc = "done" /\ Loads(inputFile).ok /\ Loads(inputFile).val.t = "list"
     /\ \A i \in 1..Len(Loads(inputFile).val.v) :
            Loads(inputFile).val.v[i].t = "obj") =>
        Objs(recs) = Loads(inputFile).val.v

\* C4: once the record loop has started, no exception ends the run.
C4_NoExceptionInLoop ==
    pos >= 1 => pc \notin {"raising", "crashed"}

\* C5: every step, a termination included, leaves the cache file as it was
\* or puts the complete text of the cache being saved in its place.
C5_CacheFileWhole ==
    [][\/ cacheFile' = cacheFile
       \/ cacheFile' = [st |-> "file", text |-> Dumps(saving)]]_vars

C5_Witness ==
    /\ pc = "killed" /\ saving # NoneV
    /\ tmpFile.st = "file"
    /\ 0 < Len(tmpFile.text) /\ Len(tmpFile.text) < Len(Dumps(saving))
    /\ cacheFile.st = "file" /\ Loads(cacheFile.text).ok
    /\ Loads(cacheFile.text).val # saving

\* C6: when the provider failed on every call of a translate_text call that
\* went to the provider, the call made exactly `retries` provider calls and
\* returns None; and a record (with text fields) for which this happened is
\* written once, without the corresponding *_vi key.
TextFields(o) ==
    /\ Get(o.v, <<"term_en">>).t \in {"none", "str"}
    /\ Get(o.v, <<"definition">>).t \in {"none", "str"}

RecordFinished(i) ==
    i < Len(recs) \/ pc \in {"p_scan", "sv_open", "sv_write", "sv_return", "done"}

C7_BackoffBeforeSuccess ==
    (pc = "tt_return" /\ Len(outcomes) >= 1 /\ retries = Len(outcomes)
     /\ outcomes[Len(outcomes)] = "ok" /\ cache.t = "obj") =>
        /\ result # NoneV
        /\ Get(cache.v, text.v) = result
        /\ Len(sleeps) = Len(outcomes) - 1
        /\ StrictlyIncreasing(sleeps)

\* C8: a call with None, or an empty or whitespace-only text, returns None
\* with no provider call, no sleep and the cache as it was.
C8_BlankTextShortCircuits ==
    (pc \in {"tt_loop", "tt_return", "raising", "crashed"} /\ Blank(text)) =>
        /\ pc = "tt_return"
        /\ result = NoneV
        /\ outcomes = <<>> /\ sleeps = <<>>
        /\ cache = cache0

C8_Witness ==
    /\ pc = "tt_return" /\ text = StrV(<<" ", " ">>) /\ result = NoneV
    /\ prev # <<>> /\ prev[1].text = NoneV /\ prev[1].result = NoneV
    /\ prev[1].outcomes = <<>>

\* C9: load_cache lets no exception out, and from a cache file that is
\* absent, unreadable or not decodable it returns an empty cache.
BadCacheFile(f) == f.st \in {"absent", "unreadable"} \/ ~Loads(f.text).ok

C9_LoadCacheNeverRaises ==
    /\ pc \notin {"raising", "crashed"} /\ exc = "none"
    /\ (pc = "c_idle" /\ ncalls = 0 /\ BadCacheFile(cacheFile)) =>
            cache = ObjV(<<>>)

C9_Witness ==
    /\ pc = "c_idle" /\ ncalls = 0 /\ cache = ObjV(<<>>)
    /\ cacheFile.st = "file" /\ cacheFile.text # <<>> /\ ~Loads(cacheFile.text).ok

\* C10: in a finished run, every element text that does not decode, a
\* truncated last one included, was reported, and every well-formed element
\* after one that does not decode was decoded.
BadElem(i) == ~Loads(src.elems[i]).ok

C10_MalformedSkippedAndReported ==
    pc = "done" =>
        /\ reports >= Cardinality({i \in 1..Len(src.elems) : BadElem(i)})
                      + (IF src.tail = <<>> THEN 0 ELSE 1)
        /\ \A j \in 1..Len(src.elems) :
            ((\E i \in 1..(j - 1) : BadElem(i)) /\ ~BadElem(j)) =>
                \E k \in 1..Len(recs) : recs[k].obj = Loads(src.elems[j]).val

\* C11: over any sequence of translate_text calls on one cache, a text that
\* is a key of the cache is never sent to the provider again, and a key of
\* the cache keeps its value: it is neither overwritten nor removed.
C11_CachedKeysAreFinal ==
    [][ /\ cache.t = "obj" =>
            /\ cache'.t = "obj"
            /\ \A i \in 1..Len(cache.v) :
                /\ HasKey(cache'.v, cache.v[i].k)
                /\ Get(cache'.v, cache.v[i].k) = cache.v[i].val
        /\ (outcomes' # outcomes /\ outcomes' # <<>> /\ cache.t = "obj") =>
            ~HasKey(cache.v, text.v) ]_vars

\* the third call is for a text an earlier call had cached, next to another
\* key: it returns the stored value and the provider is not called
C11_Witness ==
    /\ pc = "tt_return" /\ ncalls = 3
    /\ cache.t = "obj" /\ Len(cache.v) = 2
    /\ text.t = "str" /\ HasKey(cache0.v, text.v)
    /\ (\A c \in UnitCaches : ~HasKey(c.v, text.v)) /\ cache0 = cache
    /\ outcomes = <<>>
    /\ result = Get(cache.v, text.v)

\* C12: when a run of process() has ended, every record it decoded is in one
\* of two states: SKIPPED (no provider call, no line) or WRITTEN (exactly one
\* line, appended after the translations of term_en and definition); no record
\* has more than one line and none is left in a third state.
C12_SkippedOrWritten ==
    pc \in {"done", "crashed"} =>
        \A i \in 1..Len(recs) :
            \/ recs[i].skipped /\ ~recs[i].called /\ recs[i].lines = 0
            \/ ~recs[i].skipped /\ recs[i].lines = 1

\* the lines this run wrote, in the order of the records
RECURSIVE WrittenLines(_)
WrittenLines(rs) ==
    IF rs = <<>> THEN <<>>
    ELSE (IF Head(rs).lines >= 1
          THEN <<[text |-> Dumps(Head(rs).out), nl |-> TRUE]>> ELSE <<>>)
         \o WrittenLines(Tail(rs))

\* C13: when a run has ended, with resume the text the output held before the
\* run is an unchanged prefix of the output; without resume the output holds
\* exactly the lines this run wrote and no record was skipped, whatever the
\* old output held.
C13_AppendOrTruncate ==
    (pc \in {"done", "crashed"} /\ pos >= 1) =>
        IF resume
        THEN IsPrefix(FileText(out0.lines), FileText(outDisk.lines))
        ELSE /\ outDisk.lines = WrittenLines(recs)
             /\ \A i \in 1..Len(recs) : ~recs[i].skipped

\* without resume a record whose id was in the old output is written again and
\* the old lines are gone
C13_Witness ==
    /\ pc = "done" /\ ~resume /\ out0.exists
    /\ Len(recs) = 2
    /\ \A i \in 1..Len(recs) :
        /\ InOutputBefore(Get(recs[i].obj.v, <<"mesh_id">>))
        /\ recs[i].lines = 1
    /\ outDisk.lines = WrittenLines(recs)
    /\ ~IsPrefix(FileText(out0.lines), FileText(outDisk.lines))

\* C14: the cache is saved and the output flushed exactly when the count of
\* records written in this run becomes a multiple of FlushEvery: between
\* records the lines not yet flushed are the count modulo FlushEvery, a
\* periodic save runs only at a positive multiple, and never more than
\* FlushEvery written records wait for a flush.
C14_FlushEveryN ==
    /\ Len(outBuf) <= FlushEvery
    /\ pc = "p_scan" => Len(outBuf) = written % FlushEvery
    /\ ret = "periodic" =>
        /\ written > 0 /\ written % FlushEvery = 0
        /\ Len(outBuf) = FlushEvery
        /\ saving = cache

\* one record after the first flush: FlushEvery lines are in the file, the
\* cache file exists, one line waits
C14_Witness ==
    /\ pc = "p_scan" /\ written = FlushEvery + 1
    /\ Len(outBuf) = 1
    /\ Len(outDisk.lines) = FlushEvery
    /\ cacheFile.st = "file"

\* C15: in process(), whenever the provider is about to be called, the last
\* thing that happened is not an earlier provider call (nor only a backoff
\* sleep): a sleep of the fixed delay lies between any two provider calls,
\* whether the earlier call succeeded, raised or returned nothing.
C15_DelayBetweenProviderCalls ==
    (pc = "tt_loop" /\ attempt < retries /\ ret \in {"term", "def"}) =>
        lastEvent \in {"none", "delay"}

\* C16: whatever the provider does on each call (raise, return nothing,
\* return a translation), a call of translate_text on a string or None lets
\* no exception out: it returns None or the translation, which is then the
\* value the cache holds for the text.
C16_TranslateNeverRaises ==
    /\ pc \notin {"raising", "crashed"}
    /\ exc = "none"
    /\ pc = "tt_return" =>
        \/ result = NoneV
        \/ /\ result.t = "str" /\ result.v # <<>>
           /\ HasKey(cache.v, text.v) /\ result = Get(cache.v, text.v)

\* the provider raised, returned nothing and raised again: the call returns
\* None after logging; or it raised and then answered: the call returns the
\* translation
C16_Witness ==
    /\ pc = "tt_return"
    /\ \/ outcomes = <<"raise", "empty", "raise">> /\ result = NoneV /\ logged
       \/ outcomes = <<"raise", "ok">> /\ result \in
              {StrV(r) : r \in ProviderResults(text.v)}

\* the lines of the output that decode to an object with this mesh_id
LinesOf(id) ==
    {i \in 1..Len(outDisk.lines) :
        LET r == Loads(outDisk.lines[i].text) IN
        r.ok /\ r.val.t = "obj" /\ HasKey(r.val.v, <<"mesh_id">>)
        /\ Get(r.val.v, <<"mesh_id">>) = id}

\* the mesh_id of the i-th element of the input array (None without one)
InputId(i) == Get(Loads(src.elems[i]).val.v, <<"mesh_id">>)

\* the input is an array of objects whose ids are non-empty strings, no two
\* the same
DistinctStringIds ==
    /\ src.tail = <<>>
    /\ \A i \in 1..Len(src.elems) :
        /\ Loads(src.elems[i]).ok
        /\ InputId(i).t = "str" /\ InputId(i).v # <<>>
        /\ \A j \in 1..Len(src.elems) : InputId(j) = InputId(i) => j = i

\* C17: a run was terminated at some point and the job was run again with
\* resume on the same input and output, to its end: the output then holds, for
\* every input record, exactly one line that decodes to that record's
\* mesh_id, and the second run skipped every record whose line was already in
\* the output when it started.
C17_ResumeAfterTermination ==
    (pc = "done" /\ ended = <<"killed">> /\ DistinctStringIds) =>
        /\ \A i \in 1..Len(src.elems) : Cardinality(LinesOf(InputId(i))) = 1
        /\ \A i \in 1..Len(recs) :
            InOutputBefore(Get(recs[i].obj.v, <<"mesh_id">>)) => recs[i].skipped

\* every element of the input array is an object that carries a mesh_id
AllHaveIds ==
    /\ src.tail = <<>>
    /\ \A i \in 1..Len(src.elems) :
        /\ Loads(src.elems[i]).ok
        /\ HasKey(Loads(src.elems[i]).val.v, <<"mesh_id">>)

\* C18: a run has completed and the job was run again with resume on the same
\* input and output, to its end: the second run skipped every record, called
\* the provider for none, wrote nothing and left the output file as it was.
C18_RerunIsIdempotent ==
    (pc = "done" /\ ended = <<"done">> /\ AllHaveIds) =>
        /\ \A i \in 1..Len(recs) : recs[i].skipped /\ ~recs[i].called
        /\ written = 0
        /\ outDisk = out0

\* the mesh_id values of the lines of the output found at the start that
\* decode to an object containing a mesh_id (a value a set can hold: a list
\* or an object cannot be a member)
IdsInOutputBefore ==
    {Get(Loads(out0.lines[i].text).val.v, <<"mesh_id">>) :
        i \in {j \in 1..Len(out0.lines) :
                  LET r == Loads(out0.lines[j].text) IN
                  /\ r.ok /\ r.val.t = "obj" /\ HasKey(r.val.v, <<"mesh_id">>)
                  /\ Hashable(Get(r.val.v, <<"mesh_id">>))}}

\* C19: once the resume scan of an existing output is over, the resume set is
\* exactly the set of mesh_id values of the lines that decode to an object
\* containing a mesh_id: a line that does not decode adds nothing and keeps
\* no other line, before or after it, from being collected.
C19_ResumeSetExact ==
    (resume /\ out0.exists /\ pc \notin {"p_start", "p_resume", "killed"}) =>
        existing_ids = IdsInOutputBefore

\* every key but term_vi and definition_vi is in the written record what it
\* is in the input record
OtherKeysUnchanged(o, w) ==
    \A k \in {o.v[i].k : i \in 1..Len(o.v)} \cup {w.v[i].k : i \in 1..Len(w.v)} :
        k \notin {<<"term_vi">>, <<"definition_vi">>} =>
            /\ HasKey(o.v, k) /\ HasKey(w.v, k)
            /\ Get(w.v, k) = Get(o.v, k)

\* the key is there only for a non-empty translation, and holds it
OnlyFromTranslation(w, key, tr) ==
    HasKey(w.v, key) => Truthy(tr) /\ Get(w.v, key) = tr

\* the key holds the non-empty translation; without one it is as in the input
FromTranslationOrInput(o, w, key, tr) ==
    IF Truthy(tr)
    THEN HasKey(w.v, key) /\ Get(w.v, key) = tr
    ELSE (HasKey(w.v, key) <=> HasKey(o.v, key)) /\ Get(w.v, key) = Get(o.v, key)

\* C20 as stated: every written line is the input record with at most the
\* keys term_vi and definition_vi added; every other key and value is
\* unchanged; term_vi (definition_vi) is present only when translating
\* term_en (definition) returned a non-empty value, and equals that value.
C20_OnlyTranslationsAdded ==
    \A i \in 1..Len(recs) :
        recs[i].lines >= 1 =>
            /\ OtherKeysUnchanged(recs[i].obj, recs[i].out)
            /\ OnlyFromTranslation(recs[i].out, <<"term_vi">>, recs[i].tv)
            /\ OnlyFromTranslation(recs[i].out, <<"definition_vi">>, recs[i].dv)

\* C20 amended: every other key and value is unchanged; term_vi
\* (definition_vi) equals the value translating term_en (definition) returned
\* when that value is non-empty, and is otherwise as in the input record:
\* absent if the input had none, kept if the input already carried one.
C20_TranslationsAddedOrKept ==
    \A i \in 1..Len(recs) :
        recs[i].lines >= 1 =>
            /\ OtherKeysUnchanged(recs[i].obj, recs[i].out)
            /\ FromTranslationOrInput(recs[i].obj, recs[i].out,
                                      <<"term_vi">>, recs[i].tv)
            /\ FromTranslationOrInput(recs[i].obj, recs[i].out,
                                      <<"definition_vi">>, recs[i].dv)

\* a written record whose term_en was translated and whose definition was
\* not: term_vi holds the translation, definition_vi is absent, the rest is
\* the input
C20_Witness ==
    /\ pc = "done"
    /\ \E i \in 1..Len(recs) :
        /\ recs[i].lines = 1
        /\ Truthy(recs[i].tv) /\ Get(recs[i].out.v, <<"term_vi">>) = recs[i].tv
        /\ recs[i].defFail /\ ~HasKey(recs[i].out.v, <<"definition_vi">>)
        /\ Len(recs[i].out.v) = Len(recs[i].obj.v) + 1

\* the records this run wrote, as they were in memory when written
RECURSIVE WrittenObjs(_)
WrittenObjs(rs) ==
    IF rs = <<>> THEN <<>>
    ELSE (IF Head(rs).lines >= 1 THEN <<Head(rs).out>> ELSE <<>>)
         \o WrittenObjs(Tail(rs))

\* the lines the output held when the run opened it
KeptLines == IF resume THEN Len(out0.lines) ELSE 0

\* C21: when a run has ended, the output read line by line holds, after the
\* lines it had before, one line per record written in the run, in one piece
\* and ended by a newline, and each line decodes to the record as it was in
\* memory when written: the same keys and the same values.
C21_OutputRoundTrip ==
    (pc \in {"done", "crashed"} /\ pos >= 1) =>
        /\ Len(outDisk.lines) = KeptLines + Len(WrittenObjs(recs))
        /\ \A k \in 1..Len(WrittenObjs(recs)) :
            LET l == outDisk.lines[KeptLines + k] IN
            /\ l.nl
            /\ Loads(l.text).ok
            /\ Loads(l.text).val = WrittenObjs(recs)[k]

\* C22: after the resume scan no step changes existing_ids, a write
\* included; so when the run is done, two records with the same mesh_id that
\* is not in the resume set have both gone through translation and have both
\* been written.
C22_ResumeSetFixed ==
    [][ /\ pc # "p_resume" => existing_ids' = existing_ids
        /\ pc' = "done" =>
            \A i, j \in 1..Len(recs') :
                (/\ i # j
                 /\ Get(recs'[i].obj.v, <<"mesh_id">>)
                        = Get(recs'[j].obj.v, <<"mesh_id">>)
                 /\ Get(recs'[i].obj.v, <<"mesh_id">>) \notin existing_ids') =>
                    /\ ~recs'[i].skipped /\ recs'[i].lines = 1
                    /\ Truthy(Get(recs'[i].obj.v, <<"term_en">>)) =>
                         recs'[i].tv # NoneV \/ recs'[i].termFail ]_vars

\* the input holds the record A twice and A is not in the resume set: both
\* are translated and the output gets two lines for A
C22_Witness ==
    /\ pc = "done" /\ Len(recs) = 2
    /\ recs[1].obj = recs[2].obj
    /\ Get(recs[1].obj.v, <<"mesh_id">>) = StrV(<<"A">>)
    /\ StrV(<<"A">>) \notin existing_ids
    /\ \A i \in 1..2 : recs[i].lines = 1 /\ Truthy(recs[i].tv)
    /\ Cardinality(LinesOf(StrV(<<"A">>))) >= 2

\* C23: a call of translate_text never makes more than `retries` provider
\* calls nor more than retries - 1 backoff sleeps, and its k-th backoff sleep
\* lasts base_delay * 2^(k-1), whatever the provider does.
C23_BoundedRetriesAndBackoff ==
    /\ Len(outcomes) <= retries
    /\ Len(sleeps) <= (IF retries > 0 THEN retries - 1 ELSE 0)
    /\ \A k \in 1..Len(sleeps) : sleeps[k] = BaseDelay * Pow2(k - 1)

\* C24: when translate_text returns None after having called the provider at
\* least once, it has printed the 'Failed after ...' line that names the
\* text, whatever mix of exceptions and empty results the provider gave.
C24_FailureIsLogged ==
    (pc = "tt_return" /\ result = NoneV /\ outcomes # <<>>) => logged

\* C25: records are handled one after the other: while a record is in hand
\* every record decoded before it is finished, skipped or with its line
\* written, so no provider call for it comes before the previous line; and
\* the text added to the output is the written lines in the order of their
\* records in the input.
C25_SequentialInOrder ==
    /\ \A i \in 1..(Len(recs) - 1) :
        \/ recs[i].skipped /\ recs[i].lines = 0
        \/ ~recs[i].skipped /\ recs[i].lines = 1
    /\ (pos >= 1 /\ pc # "killed") =>
        FileText(outDisk.lines) \o FileText(outBuf)
            = FileText(IF resume THEN out0.lines ELSE <<>>)
              \o FileText(WrittenLines(recs))

\* two different records, the provider called for both, both written: the
\* output holds their two lines in the order of the input
C25_Witness ==
    /\ pc = "done" /\ Len(recs) = 2
    /\ recs[1].obj # recs[2].obj
    /\ \A i \in 1..2 : recs[i].called /\ recs[i].lines = 1
    /\ outDisk.lines = WrittenLines(recs)
    /\ WrittenLines(recs)[1] # WrittenLines(recs)[2]

\* C26: the depth counter of the streaming scan is never negative, and it is
\* zero whenever nothing is accumulated, so that the next '{' starts a new
\* object.
C26_DepthNonNegative ==
    /\ brace_count >= 0
    /\ current = <<>> => brace_count = 0

\* C27: whatever the cache file holds, the value load_cache returned can be
\* read and written by translate_text: once the provider has answered with a
\* translation for a text that was not in the cache, the call is over, the
\* translation is stored under the text and it is what the call returns.
C27_LoadedCacheUsable ==
    (ret \in {"term", "def"}
     /\ \E i \in 1..Len(outcomes) : outcomes[i] = "ok") =>
        /\ pc = "tt_return"
        /\ result # NoneV
        /\ cache.t = "obj"
        /\ HasKey(cache.v, text.v) /\ Get(cache.v, text.v) = result


\* C28: whatever the list and whatever the endpoint does (error status,
\* exception, items missing from the reply, indices repeated or outside the
\* list), gemini_batch_translate returns a list as long as its argument; so
\* in main term_vi_all and def_vi_all grow by the size of each batch, have
\* one entry for each MeSH item when the batches are done, and the
\* assignment by index gives every item its term_vi and definition_vi
\* without an IndexError.
Min(a, b) == IF a < b THEN a ELSE b
C28_BatchKeepsLength ==
    /\ Len(translated) = Len(text_list)
    /\ pc = "m_terms" =>
        /\ Len(term_vi_all) = Min(batch_start, Len(mesh_items))
        /\ def_vi_all = <<>>
    /\ pc = "m_defs" =>
        /\ Len(term_vi_all) = Len(mesh_items)
        /\ Len(def_vi_all) = Min(batch_start, Len(mesh_items))
    /\ pc \in {"m_assign", "m_done"} =>
        /\ Len(term_vi_all) = Len(mesh_items)
        /\ Len(def_vi_all) = Len(mesh_items)
    /\ exc # "IndexError"
    /\ pc = "m_done" =>
        \A j \in 1..Len(mesh_items) :
            /\ mesh_items[j].term_vi = term_vi_all[j]
            /\ mesh_items[j].definition_vi = def_vi_all[j]
\* main has assigned the translations of more items than one batch holds:
\* the reply to the first batch named its last item by the index -1, the
\* reply to the second batch left its item out
C28_Witness ==
    /\ pc = "m_done" /\ Len(mesh_items) > BATCH_SIZE
    /\ mesh_items[BATCH_SIZE].term_vi = <<"v">>
    /\ mesh_items[BATCH_SIZE + 1].term_vi = mesh_items[BATCH_SIZE + 1].term_en

\* C29: every converted item has the id of its own category: the prefix is
\* D_ for a row detected as disease, DR_ for drug, S_ for symptom, and the
\* number is the count of the calls so far, this one included, whose row was
\* detected as that category.
PrefixOf(category) ==
    IF category = Disease THEN "D_" ELSE IF category = Drug THEN "DR_" ELSE "S_"
CallsOf(category, n) ==
    Cardinality({j \in 1..n : conv_calls[j] = category})
C29_IdPerCategory ==
    \A j \in 1..Len(medical_items) :
        LET it == medical_items[j]
        IN  /\ it.id.prefix = PrefixOf(it.category)
            /\ it.id.digits = Fmt03(CallsOf(it.category, it.index))

\* C30: among the records built for one page, two records built from items
\* of the table of contents with different anchors have different ids.
C30_IdPerAnchor ==
    \A j, h \in 1..Len(records) :
        records[j].anchor # records[h].anchor => records[j].id # records[h].id
====
